---------------------------- MODULE Spec2Model ----------------------------
(* The classification engine of src/meeting_notes_app.py                   *)
(* (MeetingNotesAnalyzer) and the calls the application makes into it.     *)
(* A text is a sequence of one-character strings, so that str.split,       *)
(* str.strip, str.lower, the substring tests and the regular expressions   *)
(* are computed character by character, as Python computes them.           *)
EXTENDS Integers, Sequences, FiniteSets, TLC

(***************************************************************************)
(* Characters and the str methods the engine uses                          *)
(***************************************************************************)
UpperCase == <<"A","B","C","D","E","F","G","H","I","J","K","L","M","N","O","P","Q","R","S","T","U","V","W","X","Y","Z">>
LowerCase == <<"a","b","c","d","e","f","g","h","i","j","k","l","m","n","o","p","q","r","s","t","u","v","w","x","y","z">>
Digits == <<"0","1","2","3","4","5","6","7","8","9">>

Range(s) == {s[i] : i \in 1..Len(s)}

UpperSet == Range(UpperCase)
LowerSet == Range(LowerCase)
DigitSet == Range(Digits)
LowerOf == [c \in UpperSet |-> LowerCase[CHOOSE i \in 1..Len(UpperCase) : UpperCase[i] = c]]

\* c.lower() for one character
LowerChar(c) == IF c \in UpperSet THEN LowerOf[c] ELSE c

\* s.lower()
Lower(s) == [i \in 1..Len(s) |-> LowerChar(s[i])]

\* the characters str.strip() removes and \s matches
Whitespace == {" ", "\t", "\n", "\r"}

\* [a-z] and [A-Z] under re.IGNORECASE
IsLetter(c) == c \in LowerSet \/ c \in UpperSet

\* \w
IsWordChar(c) == IsLetter(c) \/ c \in DigitSet \/ c = "_"

\* the characters [^.!?] excludes
Terminators == {".", "!", "?"}

\* s[a:b] with 1-based inclusive bounds; empty when a > b
Slice(s, a, b) == SubSeq(s, a, b)

\* s.strip()
Strip(s) ==
    LET keep == {i \in 1..Len(s) : s[i] \notin Whitespace}
    IN  IF keep = {} THEN <<>>
        ELSE Slice(s, CHOOSE i \in keep : \A j \in keep : i <= j,
                      CHOOSE i \in keep : \A j \in keep : j <= i)

RECURSIVE SplitFrom(_, _, _)
SplitFrom(s, sep, from) ==
    LET hits == {i \in from..Len(s) : s[i] = sep}
    IN  IF hits = {} THEN <<Slice(s, from, Len(s))>>
        ELSE LET i == CHOOSE h \in hits : \A g \in hits : h <= g
             IN  <<Slice(s, from, i - 1)>> \o SplitFrom(s, sep, i + 1)

\* s.split(sep) for a one-character separator
Split(s, sep) == SplitFrom(s, sep, 1)

\* needle in hay
Contains(needle, hay) ==
    \E i \in 1..(Len(hay) - Len(needle) + 1) :
        \A k \in 1..Len(needle) : hay[i + k - 1] = needle[k]

\* any(p in hay for p in needles)
ContainsAny(needles, hay) == \E i \in 1..Len(needles) : Contains(needles[i], hay)

(***************************************************************************)
(* Regular expressions: re.search(pattern, text, re.IGNORECASE)            *)
(* A pattern is a sequence of elements; a position p is the gap before     *)
(* character p. Step gives every position an element can end at, so        *)
(* Search finds a match exactly when the backtracking matcher does.        *)
(***************************************************************************)
\* the character classes of the patterns: \s, [^.!?], [a-z] and [A-Z], \w
InClass(cls, c) ==
    CASE cls = "s"  -> c \in Whitespace
      [] cls = "nt" -> c \notin Terminators
      [] cls = "az" -> IsLetter(c)
      [] cls = "w"  -> IsWordChar(c)

B       == [k |-> "b",   cls |-> "",   least |-> 0, lits |-> {}]   \* \b
WS1     == [k |-> "run", cls |-> "s",  least |-> 1, lits |-> {}]   \* \s+
WS0     == [k |-> "run", cls |-> "s",  least |-> 0, lits |-> {}]   \* \s*
NT1     == [k |-> "run", cls |-> "nt", least |-> 1, lits |-> {}]   \* [^.!?]+
NT0     == [k |-> "run", cls |-> "nt", least |-> 0, lits |-> {}]   \* [^.!?]*
AZ1     == [k |-> "run", cls |-> "az", least |-> 1, lits |-> {}]   \* [a-z]+
AZ      == [k |-> "one", cls |-> "az", least |-> 1, lits |-> {}]   \* [A-Z]
Alt(ls) == [k |-> "alt", cls |-> "",   least |-> 0, lits |-> ls]   \* (?:l1|l2|...)

RECURSIVE RunEnd(_, _, _)
\* the position after the longest run of characters of the class that starts at p
RunEnd(s, p, cls) ==
    IF p <= Len(s) /\ InClass(cls, s[p]) THEN RunEnd(s, p + 1, cls) ELSE p

\* the positions a run of at least `least` characters of the class, from p, can end at
RunEnds(s, p, cls, least) == (p + least)..RunEnd(s, p, cls)

AtBoundary(s, p) ==
    LET before == p > 1 /\ IsWordChar(s[p - 1])
        after  == p <= Len(s) /\ IsWordChar(s[p])
    IN  before # after

\* the literal l, ignoring case, is at position p of s
LiteralAt(s, p, l) ==
    /\ p + Len(l) - 1 <= Len(s)
    /\ \A i \in 1..Len(l) : LowerChar(s[p + i - 1]) = l[i]

\* the positions where element e can end when it starts at a position of P
Step(e, s, P) ==
    CASE e.k = "b"   -> {p \in P : AtBoundary(s, p)}
      [] e.k = "alt" -> {pl[1] + Len(pl[2]) : pl \in {x \in P \X e.lits : LiteralAt(s, x[1], x[2])}}
      [] e.k = "run" -> UNION {RunEnds(s, p, e.cls, e.least) : p \in P}
      [] e.k = "one" -> {p + 1 : p \in {q \in P : q <= Len(s) /\ InClass(e.cls, s[q])}}

RECURSIVE Match(_, _, _, _)
Match(re, n, s, P) ==
    IF P = {} \/ n > Len(re) THEN P
    ELSE Match(re, n + 1, s, Step(re[n], s, P))

\* re.search(pattern, s, re.IGNORECASE) is not None, for the compiled form re of pattern
Search(re, s) == Match(re, 1, s, 1..(Len(s) + 1)) # {}

(***************************************************************************)
(* MeetingNotesAnalyzer.__init__: the three pattern tables, as the pattern *)
(* strings of the source, and what re compiles each string to              *)
(***************************************************************************)
action_patterns == <<
    "\\b(?:will|should|must|need to|have to|going to)\\s+([^.!?]+)",
    "\\b(?:action|task|todo|follow up|next step)[:]\\s*([^.!?]+)",
    "\\b([A-Z][a-z]+\\s+(?:will|should|must|needs to))\\s+([^.!?]+)",
    "\\b(?:assign|delegate|responsible for)\\s+([^.!?]+)" >>

decision_patterns == <<
    "\\b(?:decided|agreed|resolved|concluded|determined)\\s+(?:to|that)\\s+([^.!?]+)",
    "\\b(?:we|they|it was)\\s+(?:decided|agreed|resolved)\\s+([^.!?]+)",
    "\\b(?:decision|conclusion|agreement)[:]\\s*([^.!?]+)",
    "\\b(?:final|official)\\s+(?:decision|call|verdict)\\s+([^.!?]+)" >>

question_patterns == <<
    "([^.!?]*\\?)",
    "\\b(?:question|ask|wondering|unclear|unsure)\\s+(?:about|if|whether)\\s+([^.!?]+)",
    "\\b(?:what|how|when|where|why|who)\\s+([^.!?]+\\?)",
    "\\b(?:need to clarify|need clarification|open item)\\s+([^.!?]+)" >>

PatternStrings == Range(action_patterns) \cup Range(decision_patterns) \cup Range(question_patterns)

\* the compiled form of each pattern string
Compiled ==
    [p \in PatternStrings |->
        CASE p = action_patterns[1] ->
               <<B, Alt({<<"w","i","l","l">>, <<"s","h","o","u","l","d">>, <<"m","u","s","t">>, <<"n","e","e","d"," ","t","o">>, <<"h","a","v","e"," ","t","o">>, <<"g","o","i","n","g"," ","t","o">>}),
                 WS1, NT1>>
          [] p = action_patterns[2] ->
               <<B, Alt({<<"a","c","t","i","o","n">>, <<"t","a","s","k">>, <<"t","o","d","o">>, <<"f","o","l","l","o","w"," ","u","p">>, <<"n","e","x","t"," ","s","t","e","p">>}),
                 Alt({<<":">>}), WS0, NT1>>
          [] p = action_patterns[3] ->
               <<B, AZ, AZ1, WS1, Alt({<<"w","i","l","l">>, <<"s","h","o","u","l","d">>, <<"m","u","s","t">>, <<"n","e","e","d","s"," ","t","o">>}), WS1, NT1>>
          [] p = action_patterns[4] ->
               <<B, Alt({<<"a","s","s","i","g","n">>, <<"d","e","l","e","g","a","t","e">>, <<"r","e","s","p","o","n","s","i","b","l","e"," ","f","o","r">>}), WS1, NT1>>
          [] p = decision_patterns[1] ->
               <<B, Alt({<<"d","e","c","i","d","e","d">>, <<"a","g","r","e","e","d">>, <<"r","e","s","o","l","v","e","d">>, <<"c","o","n","c","l","u","d","e","d">>, <<"d","e","t","e","r","m","i","n","e","d">>}),
                 WS1, Alt({<<"t","o">>, <<"t","h","a","t">>}), WS1, NT1>>
          [] p = decision_patterns[2] ->
               <<B, Alt({<<"w","e">>, <<"t","h","e","y">>, <<"i","t"," ","w","a","s">>}), WS1,
                 Alt({<<"d","e","c","i","d","e","d">>, <<"a","g","r","e","e","d">>, <<"r","e","s","o","l","v","e","d">>}), WS1, NT1>>
          [] p = decision_patterns[3] ->
               <<B, Alt({<<"d","e","c","i","s","i","o","n">>, <<"c","o","n","c","l","u","s","i","o","n">>, <<"a","g","r","e","e","m","e","n","t">>}), Alt({<<":">>}), WS0, NT1>>
          [] p = decision_patterns[4] ->
               <<B, Alt({<<"f","i","n","a","l">>, <<"o","f","f","i","c","i","a","l">>}), WS1,
                 Alt({<<"d","e","c","i","s","i","o","n">>, <<"c","a","l","l">>, <<"v","e","r","d","i","c","t">>}), WS1, NT1>>
          [] p = question_patterns[1] ->
               <<NT0, Alt({<<"?">>})>>
          [] p = question_patterns[2] ->
               <<B, Alt({<<"q","u","e","s","t","i","o","n">>, <<"a","s","k">>, <<"w","o","n","d","e","r","i","n","g">>, <<"u","n","c","l","e","a","r">>, <<"u","n","s","u","r","e">>}),
                 WS1, Alt({<<"a","b","o","u","t">>, <<"i","f">>, <<"w","h","e","t","h","e","r">>}), WS1, NT1>>
          [] p = question_patterns[3] ->
               <<B, Alt({<<"w","h","a","t">>, <<"h","o","w">>, <<"w","h","e","n">>, <<"w","h","e","r","e">>, <<"w","h","y">>, <<"w","h","o">>}),
                 WS1, NT1, Alt({<<"?">>})>>
          [] p = question_patterns[4] ->
               <<B, Alt({<<"n","e","e","d"," ","t","o"," ","c","l","a","r","i","f","y">>, <<"n","e","e","d"," ","c","l","a","r","i","f","i","c","a","t","i","o","n">>, <<"o","p","e","n"," ","i","t","e","m">>}), WS1, NT1>>]

\* a variant of _check_patterns with all() for any(): every pattern must match
check_patterns_all(txt, patterns) ==
    \A i \in 1..Len(patterns) : Search(Compiled[patterns[i]], txt)

\* _check_patterns(text, patterns)
check_patterns(txt, patterns) ==
    \E i \in 1..Len(patterns) : Search(Compiled[patterns[i]], txt)


(***************************************************************************)
(* The annotation engine (spacy, en_core_web_sm): an external library.     *)
(* A loaded model is a deterministic function of the text it is given; the *)
(* model that gets loaded is one of Taggers. Tokens are runs of word       *)
(* characters or single punctuation marks; sentences end after a           *)
(* terminator that is followed by whitespace, and at a line break.         *)
(***************************************************************************)
Undefined == "undefined"
Taggers == {"lexical", "nominal"}

\* the token texts of s from position from on
TokensFrom(s, from) ==
    LET tokens[p \in 1..(Len(s) + 1)] ==
            IF p > Len(s) THEN <<>>
            ELSE IF s[p] \in Whitespace THEN tokens[p + 1]
            ELSE IF ~IsWordChar(s[p]) THEN <<Slice(s, p, p)>> \o tokens[p + 1]
            ELSE LET q == RunEnd(s, p, "w")
                 IN  <<Slice(s, p, q - 1)>> \o tokens[q]
    IN  tokens[from]

\* the token texts of nlp(s)
Tokenize(s) == TokensFrom(s, 1)

PastForms == {<<"d","e","c","i","d","e","d">>, <<"a","g","r","e","e","d">>, <<"s","t","a","r","t","e","d">>}
Modals    == {<<"w","i","l","l">>, <<"m","u","s","t">>, <<"s","h","o","u","l","d">>, <<"c","a","n">>, <<"c","o","u","l","d">>, <<"w","o","u","l","d">>}
BaseForms == {<<"s","e","n","d">>, <<"s","h","i","p">>, <<"g","o">>, <<"f","i","x">>, <<"u","p","d","a","t","e">>}
Names     == {<<"a","l">>, <<"j","o","h","n">>}

\* token.lemma_
Lemma(w) ==
    CASE w = <<"d","e","c","i","d","e","d">> -> <<"d","e","c","i","d","e">>
      [] w = <<"a","g","r","e","e","d">>  -> <<"a","g","r","e","e">>
      [] w = <<"s","t","a","r","t","e","d">> -> <<"s","t","a","r","t">>
      [] OTHER -> w

\* one token of nlp(...): text, pos_, tag_, lemma_, ent_type_
Token(model, t) ==
    LET w == Lower(t)
        ann == CASE w \in PastForms -> <<"VERB", "VBD", "">>
                 [] w \in Modals    -> <<"AUX", "MD", "">>
                 [] w \in BaseForms -> IF model = "lexical" THEN <<"VERB", "VB", "">>
                                                            ELSE <<"NOUN", "NN", "">>
                 [] w \in Names     -> IF model = "lexical" THEN <<"PROPN", "NNP", "PERSON">>
                                                            ELSE <<"PROPN", "NNP", "">>
                 [] Len(t) = 1 /\ ~IsWordChar(t[1]) -> <<"PUNCT", ".", "">>
                 [] OTHER -> <<"NOUN", "NN", "">>
    IN  [text |-> t, pos_ |-> ann[1], tag_ |-> ann[2], lemma_ |-> Lemma(w), ent_type_ |-> ann[3]]

\* nlp(s) as the sequence of its tokens
Doc(model, s) ==
    LET toks == Tokenize(s)
    IN  SubSeq([i \in 1..Len(toks) |-> Token(model, toks[i])], 1, Len(toks))

RECURSIVE SentsFrom(_, _)
SentsFrom(s, from) ==
    IF from > Len(s) THEN <<>>
    ELSE LET cuts == {i \in from..Len(s) :
                        \/ s[i] = "\n"
                        \/ i = Len(s)
                        \/ s[i] \in Terminators /\ s[i + 1] \in Whitespace}
             c == CHOOSE i \in cuts : \A j \in cuts : i <= j
         IN  <<Slice(s, from, c)>> \o SentsFrom(s, c + 1)

\* [sent.text for sent in nlp(s).sents]
Sents(s) == SentsFrom(s, 1)

(***************************************************************************)
(* The category tests of the annotation-based strategy                     *)
(***************************************************************************)
In(x, list) == \E i \in 1..Len(list) : list[i] = x

question_words == <<<<"w","h","a","t">>, <<"h","o","w">>, <<"w","h","e","n">>, <<"w","h","e","r","e">>, <<"w","h","y">>, <<"w","h","o">>, <<"w","h","i","c","h">>, <<"w","h","o","s","e">>>>
uncertainty_phrases == <<<<"u","n","c","l","e","a","r">>, <<"u","n","s","u","r","e">>, <<"n","o","t"," ","s","u","r","e">>, <<"q","u","e","s","t","i","o","n">>, <<"w","o","n","d","e","r","i","n","g">>,
                         <<"n","e","e","d"," ","c","l","a","r","i","f","i","c","a","t","i","o","n">>, <<"o","p","e","n"," ","i","t","e","m">>, <<"t","o"," ","b","e"," ","d","e","t","e","r","m","i","n","e","d">>, <<"t","b","d">>>>
aux_verbs == <<<<"d","o">>, <<"d","o","e","s">>, <<"d","i","d">>, <<"c","a","n">>, <<"c","o","u","l","d">>, <<"w","i","l","l">>, <<"w","o","u","l","d">>, <<"s","h","o","u","l","d">>>>

\* _is_question(sentence, doc)
is_question(sentence, doc) ==
    LET first_token == IF Len(doc) > 0 THEN Lower(doc[1].text) ELSE <<>>
        sentence_lower == Lower(sentence)
    IN  \/ Contains(<<"?">>, sentence)
        \/ In(first_token, question_words)
        \/ ContainsAny(uncertainty_phrases, sentence_lower)
        \/ Len(doc) > 0 /\ In(Lower(doc[1].text), aux_verbs) /\ doc[1].pos_ = "AUX"

decision_verbs == <<<<"d","e","c","i","d","e","d">>, <<"a","g","r","e","e","d">>, <<"r","e","s","o","l","v","e","d">>, <<"c","o","n","c","l","u","d","e","d">>, <<"d","e","t","e","r","m","i","n","e","d">>,
                    <<"a","p","p","r","o","v","e","d">>, <<"c","o","n","f","i","r","m","e","d">>, <<"f","i","n","a","l","i","z","e","d">>, <<"s","e","t","t","l","e","d">>>>
decision_nouns == <<<<"d","e","c","i","s","i","o","n">>, <<"a","g","r","e","e","m","e","n","t">>, <<"r","e","s","o","l","u","t","i","o","n">>, <<"c","o","n","c","l","u","s","i","o","n">>,
                    <<"a","p","p","r","o","v","a","l">>, <<"c","o","n","f","i","r","m","a","t","i","o","n">>, <<"v","e","r","d","i","c","t">>, <<"r","u","l","i","n","g">>>>
passive_indicators == <<<<"i","t"," ","w","a","s"," ","d","e","c","i","d","e","d">>, <<"i","t"," ","w","a","s"," ","a","g","r","e","e","d">>, <<"i","t"," ","w","a","s"," ","r","e","s","o","l","v","e","d">>>>

\* _is_decision(sentence, doc)
is_decision(sentence, doc) ==
    LET sentence_lower == Lower(sentence)
    IN  \/ ContainsAny(decision_verbs, sentence_lower)
        \/ ContainsAny(decision_nouns, sentence_lower)
        \/ ContainsAny(passive_indicators, sentence_lower)
        \/ \E i \in 1..Len(doc) :
              /\ doc[i].pos_ = "VERB"
              /\ doc[i].tag_ \in {"VBD", "VBN"}
              /\ In(doc[i].lemma_, decision_verbs)

action_indicators == <<<<"w","i","l","l">>, <<"s","h","o","u","l","d">>, <<"m","u","s","t">>, <<"n","e","e","d"," ","t","o">>, <<"h","a","v","e"," ","t","o">>, <<"g","o","i","n","g"," ","t","o">>,
                       <<"a","c","t","i","o","n">>, <<"t","a","s","k">>, <<"t","o","d","o">>, <<"a","s","s","i","g","n">>, <<"r","e","s","p","o","n","s","i","b","l","e">>, <<"f","o","l","l","o","w"," ","u","p">>,
                       <<"n","e","x","t"," ","s","t","e","p">>, <<"d","e","l","i","v","e","r","a","b","l","e">>, <<"o","w","n","e","r">>>>
modal_obligations == <<<<"s","h","o","u","l","d">>, <<"m","u","s","t">>, <<"n","e","e","d">>, <<"h","a","v","e">>>>

\* _is_action(sentence, doc)
is_action(sentence, doc) ==
    LET sentence_lower == Lower(sentence)
    IN  \/ ContainsAny(action_indicators, sentence_lower)
        \/ Len(doc) > 0 /\ doc[1].pos_ = "VERB" /\ doc[1].tag_ = "VB"
        \/ \E i \in 1..Len(doc) :
              Lower(doc[i].text) = <<"w","i","l","l">> /\ i + 1 <= Len(doc) /\ doc[i + 1].pos_ = "VERB"
        \/ \E i \in 1..Len(doc) :
              In(Lower(doc[i].text), modal_obligations) /\ doc[i].pos_ \in {"VERB", "AUX"}
        \/ \E i \in 1..Len(doc) :
              /\ doc[i].ent_type_ = "PERSON"
              /\ i + 1 <= Len(doc)
              /\ In(Lower(doc[i + 1].text), <<<<"w","i","l","l">>, <<"s","h","o","u","l","d">>, <<"m","u","s","t">>, <<"t","o">>>>)

(***************************************************************************)
(* The category tests as calls that return or raise. A test indexes the    *)
(* doc at the positions below (doc[0] of the source is doc[1] here); an    *)
(* index outside the doc raises IndexError, and iterating over a doc does  *)
(* not index it.                                                           *)
(***************************************************************************)
IndexError == "IndexError"

\* the value a test returned, as the caller sees it
Returned(b) == IF b THEN "True" ELSE "False"

\* a variant of _is_question that reads doc[0] without asking whether the doc has tokens
question_reads_unguarded(sentence, doc) ==
    IF Contains(<<"?">>, sentence) THEN {} ELSE {1}

\* _is_question: `doc[0].text.lower() if doc else ""` and `doc and doc[0]...`
question_reads(sentence, doc) ==
    IF Contains(<<"?">>, sentence) THEN {}
    ELSE IF Len(doc) > 0 THEN {1} ELSE {}

\* _is_decision: only `for token in doc`
decision_reads(sentence, doc) == {}

\* the positions a loop `for i, token in enumerate(doc)` reads through doc[i + 1]:
\* at every i of looks, up to the first i at which the loop returns
NextReads(looks, returns) == {i + 1 : i \in {l \in looks : \A r \in returns : l <= r}}

\* a variant of _is_action whose loops read doc[i + 1] without `i + 1 < len(doc)`
action_reads_unguarded(sentence, doc) ==
    LET n == Len(doc)
        first == IF n > 0 THEN {1} ELSE {}
        wills == {i \in 1..n : Lower(doc[i].text) = <<"w","i","l","l">>}
        persons == {i \in 1..n : doc[i].ent_type_ = "PERSON"}
    IN  IF ContainsAny(action_indicators, Lower(sentence)) THEN {}
        ELSE first \cup NextReads(wills, {}) \cup NextReads(persons, {})

\* _is_action: `if doc and len(doc) > 0: first_token = doc[0]`, and the two loops
\* that read doc[i + 1] under `i + 1 < len(doc)`
action_reads(sentence, doc) ==
    LET n == Len(doc)
        first == IF n > 0 THEN {1} ELSE {}
        imperative == n > 0 /\ doc[1].pos_ = "VERB" /\ doc[1].tag_ = "VB"
        wills == {i \in 1..n : Lower(doc[i].text) = <<"w","i","l","l">> /\ i + 1 <= n}
        willHits == {i \in wills : doc[i + 1].pos_ = "VERB"}
        modalHit == \E i \in 1..n :
                        In(Lower(doc[i].text), modal_obligations) /\ doc[i].pos_ \in {"VERB", "AUX"}
        persons == {i \in 1..n : doc[i].ent_type_ = "PERSON" /\ i + 1 <= n}
        personHits == {i \in persons :
                          In(Lower(doc[i + 1].text), <<<<"w","i","l","l">>, <<"s","h","o","u","l","d">>, <<"m","u","s","t">>, <<"t","o">>>>)}
    IN  IF ContainsAny(action_indicators, Lower(sentence)) THEN {}
        ELSE IF imperative THEN first
        ELSE IF willHits # {} THEN first \cup NextReads(wills, willHits)
        ELSE IF modalHit THEN first \cup NextReads(wills, {})
        ELSE first \cup NextReads(wills, {}) \cup NextReads(persons, personHits)

\* self._is_question(sentence, doc) as a call
call_is_question(sentence, doc) ==
    LET reads == question_reads(sentence, doc)
    IN  IF reads \subseteq DOMAIN doc THEN Returned(is_question(sentence, doc)) ELSE IndexError

\* self._is_decision(sentence, doc) as a call
call_is_decision(sentence, doc) ==
    LET reads == decision_reads(sentence, doc)
    IN  IF reads \subseteq DOMAIN doc THEN Returned(is_decision(sentence, doc)) ELSE IndexError

\* self._is_action(sentence, doc) as a call
call_is_action(sentence, doc) ==
    LET reads == action_reads(sentence, doc)
    IN  IF reads \subseteq DOMAIN doc THEN Returned(is_action(sentence, doc)) ELSE IndexError

\* self._check_patterns(text, patterns) as a call: re.search reads no doc
call_check_patterns(txt, patterns) == Returned(check_patterns(txt, patterns))

(***************************************************************************)
(* Results and the two strategies' per-unit classification                 *)
(***************************************************************************)
\* a variant of the initial results that starts each list with a placeholder entry
PlaceholderResults ==
    [actions |-> <<<<"N","o"," ","a","c","t","i","o","n"," ","i","t","e","m","s"," ","f","o","u","n","d",".">>>>,
     decisions |-> <<<<"N","o"," ","d","e","c","i","s","i","o","n","s"," ","f","o","u","n","d",".">>>>,
     questions |-> <<<<"N","o"," ","o","p","e","n"," ","q","u","e","s","t","i","o","n","s"," ","f","o","u","n","d",".">>>>]

\* results = {"actions": [], "decisions": [], "questions": []}
EmptyResults == [actions |-> <<>>, decisions |-> <<>>, questions |-> <<>>]
Keys == {"actions", "decisions", "questions"}

\* results[key].append(unit)
Appended(res, key, unit) == [res EXCEPT ![key] = Append(@, unit)]

\* a variant of the chain with the priority reversed: action, decision, question
CategorizedActionFirst(res, sentence, q, d, a) ==
    IF a THEN Appended(res, "actions", sentence)
    ELSE IF d THEN Appended(res, "decisions", sentence)
    ELSE IF q THEN Appended(res, "questions", sentence)
    ELSE res

\* analyze_with_spacy, the if/elif chain on the three test outcomes
Categorized(res, sentence, q, d, a) ==
    IF q THEN Appended(res, "questions", sentence)
    ELSE IF d THEN Appended(res, "decisions", sentence)
    ELSE IF a THEN Appended(res, "actions", sentence)
    ELSE res

\* analyze_with_spacy, the body of the loop over the sentences
spacy_step(model, res, sentence) ==
    CHOOSE r \in {Categorized(res, sentence,
                              is_question(sentence, sentence_doc),
                              is_decision(sentence, sentence_doc),
                              is_action(sentence, sentence_doc)) :
                      sentence_doc \in {Doc(model, sentence)}} : TRUE

\* a variant of the loop body with if for each elif: every matching category gets the line
patterns_step_every(tbl, res, rawline) ==
    LET line == Strip(rawline)
        r1 == IF check_patterns(line, tbl.question_patterns)
              THEN Appended(res, "questions", line) ELSE res
        r2 == IF check_patterns(line, tbl.decision_patterns)
              THEN Appended(r1, "decisions", line) ELSE r1
        r3 == IF check_patterns(line, tbl.action_patterns)
              THEN Appended(r2, "actions", line) ELSE r2
    IN  IF line = <<>> THEN res ELSE r3

\* a variant of the loop body that classifies and stores the line as it was split,
\* without line.strip()
patterns_step_untrimmed(tbl, res, rawline) ==
    LET line == rawline
    IN  IF line = <<>> THEN res
        ELSE IF check_patterns(line, tbl.question_patterns)
             THEN Appended(res, "questions", line)
        ELSE IF check_patterns(line, tbl.decision_patterns)
             THEN Appended(res, "decisions", line)
        ELSE IF check_patterns(line, tbl.action_patterns)
             THEN Appended(res, "actions", line)
        ELSE res

\* analyze_with_patterns, the body of the loop over the lines
patterns_step(tbl, res, rawline) ==
    CHOOSE r \in {IF line = <<>> THEN res
                  ELSE IF check_patterns(line, tbl.question_patterns)
                       THEN Appended(res, "questions", line)
                  ELSE IF check_patterns(line, tbl.decision_patterns)
                       THEN Appended(res, "decisions", line)
                  ELSE IF check_patterns(line, tbl.action_patterns)
                       THEN Appended(res, "actions", line)
                  ELSE res :
                      line \in {Strip(rawline)}} : TRUE

\* list(dict.fromkeys(seq))
RECURSIVE FromKeys(_, _)
FromKeys(seq, n) ==
    IF n > Len(seq) THEN <<>>
    ELSE IF \E j \in 1..(n - 1) : seq[j] = seq[n] THEN FromKeys(seq, n + 1)
    ELSE <<seq[n]>> \o FromKeys(seq, n + 1)

\* a variant of the last loop of analyze_with_spacy that leaves the lists as they are
NotDeduplicated(res) == res

\* for key in results: results[key] = list(dict.fromkeys(results[key]))
Deduplicated(res) == [k \in Keys |-> FromKeys(res[k], 1)]

\* sentences = [sent.text.strip() for sent in doc.sents if sent.text.strip()]
Sentences(s) ==
    LET sents == Sents(s)
        stripped == [i \in 1..Len(sents) |-> Strip(sents[i])]
    IN  SelectSeq(stripped, LAMBDA u : u # <<>>)

(***************************************************************************)
(* Input texts                                                             *)
(***************************************************************************)
MaxLines == 3
MaxShortLines == 2

RECURSIVE Join(_, _)
\* sep.join(lines)
Join(lines, sep) ==
    IF Len(lines) = 0 THEN <<>>
    ELSE IF Len(lines) = 1 THEN lines[1]
    ELSE lines[1] \o <<sep>> \o Join(Tail(lines), sep)

LinePool == { <<"A","c","t","i","o","n",":"," ","u","p","d","a","t","e"," ","t","h","e"," ","w","i","k","i",".">>,
              <<"\t","A","l"," ","w","i","l","l"," ","s","h","i","p","."," ">>,
              <<"W","h","o"," ","d","e","c","i","d","e","d"," ","w","e"," ","m","u","s","t"," ","g","o","?">>,
              <<"W","e"," ","a","g","r","e","e","d"," ","A","l"," ","m","u","s","t"," ","g","o",".">>,
              <<"S","e","n","d"," ","t","h","e"," ","r","e","p","o","r","t">>,
              <<" ","\t">> }

ShortPool == { <<"A","l"," ","w","i","l","l"," ","s","h","i","p",".">>, <<"W","h","o"," ","d","e","c","i","d","e","d","?">> }

Scenarios == { <<"W","e"," ","d","e","c","i","d","e","d"," ","t","o"," ","s","h","i","p"," ","o","n"," ","F","r","i","d","a","y",".">>,
               <<"J","o","h","n"," ","w","i","l","l"," ","s","e","n","d"," ","t","h","e"," ","r","e","p","o","r","t"," ","b","y"," ","M","o","n","d","a","y",".">>,
               <<"W","h","a","t"," ","i","s"," ","t","h","e"," ","b","u","d","g","e","t"," ","f","o","r"," ","Q","3","?">> }

TextsOver(pool, n) == {Join(ls, "\n") : ls \in UNION {[1..k -> pool] : k \in 0..n}}

Texts == TextsOver(LinePool, MaxLines) \cup Scenarios
ShortTexts == TextsOver(ShortPool, MaxShortLines)

\* the number of lines of the notes the user puts into the text box
MaxNoteLines == 1

\* what the user types, pastes or loads into text_input
Notes == TextsOver(ShortPool, MaxNoteLines) \cup {<<" ">>}

\* the longest proper prefix of a sentence's tokens that is handed to a test as a doc
MaxDocLen == 1

\* sentences handed to the category tests one at a time
UnitPool == { <<>>, <<"?">>, <<"A","l">>, <<"A","s","k"," ","A","l">>, <<"S","e","n","d">>, <<"t","b","d">>, <<"C","a","n"," ","A","l"," ","g","o">>,
              <<"A","c","t","i","o","n",":"," ","u","p","d","a","t","e"," ","t","h","e"," ","w","i","k","i",".">>, <<"A","l"," ","w","i","l","l"," ","s","h","i","p",".">>, <<"W","h","o"," ","d","e","c","i","d","e","d"," ","w","e"," ","m","u","s","t"," ","g","o","?">>,
              <<"W","e"," ","a","g","r","e","e","d"," ","A","l"," ","m","u","s","t"," ","g","o",".">>, <<"S","e","n","d"," ","t","h","e"," ","r","e","p","o","r","t">>, <<"T","h","e"," ","m","e","e","t","i","n","g"," ","s","t","a","r","t","e","d"," ","a","t"," ","9","a","m",".">> }

\* the (sentence, doc) pairs: the sentence with its own tokens, and with the first
\* 0..MaxDocLen of them
TestUnits(model) ==
    UNION {{[sentence |-> u, doc |-> SubSeq(Doc(model, u), 1, n)] :
                n \in {k \in 0..Len(Tokenize(u)) : k <= MaxDocLen \/ k = Len(Tokenize(u))}} :
           u \in UnitPool}
     \ {[sentence |-> u, doc |-> <<>>] : u \in {}}

(***************************************************************************)
(* State                                                                   *)
(***************************************************************************)
Workers == {"w1", "w2"}
None == "None"

\* what ret holds for a call that has not returned: no list has an entry
NotReturned == [k \in Keys |-> <<>>]

VARIABLES
    SPACY_AVAILABLE,  \* the module-level capability flag
    nlp,              \* the module-level loaded model, Undefined when not loaded
    tables,           \* the analyzer's three pattern tables (self.*_patterns)
    pc,               \* each worker's position in its call
    entry,            \* the method each worker's caller invoked
    text,             \* the argument of each worker's call
    units,            \* each call's local list: sentences, or lines
    idx,              \* each call's position in units
    results,          \* each call's local results
    ret,              \* the value each call returned
    seen,             \* the returned value a caller has kept, with its call
    unit,             \* the (sentence, doc) pair handed to the category tests
    verdict,          \* what each category test did with unit
    app,              \* the window: text_input, the three panes, status_var, current_results
    pending,          \* the callbacks root.after has scheduled and the loop has not run
    cleared           \* history: clear_all has run and analyze_notes has not been invoked since

\* the variables of the category tests on their own
probe == <<unit, verdict>>

\* the variables of the application window
window == <<app, pending, cleared>>

vars == <<SPACY_AVAILABLE, nlp, tables, pc, entry, text, units, idx, results, ret, seen,
          unit, verdict, app, pending, cleared>>

\* the try/except around import spacy and spacy.load at module import
Startup ==
    \/ SPACY_AVAILABLE = TRUE /\ nlp \in Taggers
    \/ SPACY_AVAILABLE = FALSE /\ nlp = Undefined

\* MeetingNotesAnalyzer.__init__
NewAnalyzer ==
    [action_patterns |-> action_patterns,
     decision_patterns |-> decision_patterns,
     question_patterns |-> question_patterns]

\* a status line: the format string and the values formatted into it
Status(msg, args) == [msg |-> msg, args |-> args]

\* MeetingNotesApp.__init__ and create_widgets: empty text widgets, the Ready status,
\* no current_results attribute (the empty set), no dialog shown
NewApp ==
    [text_input |-> <<>>,
     action_text |-> <<>>,
     decision_text |-> <<>>,
     question_text |-> <<>>,
     status_var |-> Status("Ready - Paste your meeting notes above and click 'Analyze Notes'", <<>>),
     current_results |-> {},
     messagebox |-> <<>>]

\* what display_results puts into a pane: a bulleted paragraph per item, or one
\* paragraph saying that there is none
Shown(items, nothing) ==
    IF items = <<>> THEN <<[bullet |-> FALSE, text |-> nothing]>>
    ELSE [i \in 1..Len(items) |-> [bullet |-> TRUE, text |-> items[i]]]

\* display_results(results)
display_results(a, res) ==
    [a EXCEPT !.action_text = Shown(res.actions, <<"N","o"," ","a","c","t","i","o","n"," ","i","t","e","m","s"," ","f","o","u","n","d"," ","i","n"," ","t","h","e"," ","m","e","e","t","i","n","g"," ","n","o","t","e","s",".">>),
              !.decision_text = Shown(res.decisions, <<"N","o"," ","d","e","c","i","s","i","o","n","s"," ","f","o","u","n","d"," ","i","n"," ","t","h","e"," ","m","e","e","t","i","n","g"," ","n","o","t","e","s",".">>),
              !.question_text = Shown(res.questions, <<"N","o"," ","o","p","e","n"," ","q","u","e","s","t","i","o","n","s"," ","f","o","u","n","d"," ","i","n"," ","t","h","e"," ","m","e","e","t","i","n","g"," ","n","o","t","e","s",".">>)]

\* finish_analysis(results)
finish_analysis(a, res) ==
    [display_results(a, res) EXCEPT
        !.current_results = {res},
        !.status_var = Status("Analysis complete using {method} - Found: {total_actions} actions, {total_decisions} decisions, {total_questions} questions",
                              <<IF SPACY_AVAILABLE THEN "Spacy" ELSE "Pattern Matching",
                                Len(res.actions), Len(res.decisions), Len(res.questions)>>)]

\* analysis_error(error_msg)
analysis_error(a, error_msg) ==
    [a EXCEPT !.status_var = Status("Analysis failed - check your input and try again", <<>>),
              !.messagebox = <<[kind |-> "showerror", title |-> "Error",
                                message |-> <<"Analysis failed: ", error_msg>>]>>]

\* clear_all()
clear_all(a) ==
    [a EXCEPT !.text_input = <<>>,
              !.action_text = <<>>,
              !.decision_text = <<>>,
              !.question_text = <<>>,
              !.status_var = Status("Ready - All content cleared", <<>>),
              !.current_results = {}]

Analyzing == Status("Analyzing meeting notes...", <<>>)

\* str(e) of the exception the engine raises: nlp(text) refuses a text longer than
\* nlp.max_length with ValueError [E088]
EngineError == "[E088]"

\* the cell of `e` after the except block is left: Python unbinds the name there
Unbound == "<unbound>"

\* lambda: self.finish_analysis(results), scheduled by thread w
FinishCallback(w, res) == [fn |-> "finish_analysis", by |-> w, results |-> res, e |-> None]

\* lambda: self.analysis_error(str(e)), scheduled by thread w; e is the cell it reads
ErrorCallback(w, msg) == [fn |-> "analysis_error", by |-> w, results |-> EmptyResults, e |-> msg]

\* the loop runs one scheduled callback. The lambda of the except branch evaluates
\* str(e) first: with e unbound that raises NameError, which Tk reports, and
\* analysis_error is not entered.
Run(cb, a) ==
    IF cb.fn = "finish_analysis" THEN finish_analysis(a, cb.results)
    ELSE IF cb.e = Unbound THEN a
    ELSE analysis_error(a, cb.e)

\* self.root.update(): the loop runs every callback that is due
RECURSIVE RunAll(_, _)
RunAll(cbs, a) ==
    IF cbs = <<>> THEN a ELSE RunAll(Tail(cbs), Run(Head(cbs), a))

\* no unit is under test
NoUnit == [sentence |-> <<>>, doc |-> <<>>]

Tests == {"_is_question", "_is_decision", "_is_action", "_check_patterns"}

\* no test has been called
NoVerdict == [t \in Tests |-> None]

Init ==
    /\ Startup
    /\ tables = NewAnalyzer
    /\ pc = [w \in Workers |-> "idle"]
    /\ entry = [w \in Workers |-> None]
    /\ text = [w \in Workers |-> <<>>]
    /\ units = [w \in Workers |-> <<>>]
    /\ idx = [w \in Workers |-> 0]
    /\ results = [w \in Workers |-> EmptyResults]
    /\ ret = [w \in Workers |-> NotReturned]
    /\ seen = {}
    /\ unit = NoUnit
    /\ verdict = NoVerdict
    /\ app = NewApp
    /\ pending = <<>>
    /\ cleared = FALSE

\* a variant in which every call uses one results object, kept on the analyzer
SharedFrame(w) == "w1"

\* the results object a call's name `results` is bound to: the call's own
Frame(w) == w

(***************************************************************************)
(* Actions                                                                 *)
(***************************************************************************)
\* a caller invokes analyzer.analyze_with_spacy(txt), for a text txt of txts
CallSpacy(w, txts) ==
    /\ pc[w] = "idle"
    /\ pc' = [pc EXCEPT ![w] = "spacy"]
    /\ entry' = [entry EXCEPT ![w] = "spacy"]
    /\ \E txt \in txts : text' = [text EXCEPT ![w] = txt]
    /\ ret' = [ret EXCEPT ![w] = NotReturned]
    /\ UNCHANGED <<probe, window, SPACY_AVAILABLE, nlp, tables, units, idx, results, seen>>

\* a caller invokes analyzer.analyze_with_patterns(txt), for a text txt of txts
CallPatterns(w, txts) ==
    /\ pc[w] = "idle"
    /\ pc' = [pc EXCEPT ![w] = "patterns"]
    /\ entry' = [entry EXCEPT ![w] = "patterns"]
    /\ \E txt \in txts : text' = [text EXCEPT ![w] = txt]
    /\ ret' = [ret EXCEPT ![w] = NotReturned]
    /\ UNCHANGED <<probe, window, SPACY_AVAILABLE, nlp, tables, units, idx, results, seen>>

\* a variant of the start of analyze_with_spacy without the fallback test
SpacyBeginUnguarded(w) ==
    /\ pc[w] = "spacy"
    /\ IF nlp = Undefined
       THEN /\ pc' = [pc EXCEPT ![w] = "raised"]
            /\ UNCHANGED <<units, idx, results>>
       ELSE /\ pc' = [pc EXCEPT ![w] = "sentences"]
            /\ results' = [results EXCEPT ![Frame(w)] = EmptyResults]
            /\ units' = [units EXCEPT ![w] = Sentences(text[w])]
            /\ idx' = [idx EXCEPT ![w] = 1]
    /\ UNCHANGED <<probe, window, SPACY_AVAILABLE, nlp, tables, entry, text, ret, seen>>

\* analyze_with_spacy up to the loop: the fallback test, nlp(text), the sentences
SpacyBegin(w) ==
    /\ pc[w] = "spacy"
    /\ IF ~SPACY_AVAILABLE
       THEN /\ pc' = [pc EXCEPT ![w] = "patterns"]
            /\ UNCHANGED <<units, idx, results>>
       ELSE IF nlp = Undefined
       THEN /\ pc' = [pc EXCEPT ![w] = "raised"]
            /\ UNCHANGED <<units, idx, results>>
       ELSE /\ pc' = [pc EXCEPT ![w] = "sentences"]
            /\ results' = [results EXCEPT ![Frame(w)] = EmptyResults]
            /\ units' = [units EXCEPT ![w] = Sentences(text[w])]
            /\ idx' = [idx EXCEPT ![w] = 1]
    /\ UNCHANGED <<probe, window, SPACY_AVAILABLE, nlp, tables, entry, text, ret, seen>>

\* one iteration of the loop over the sentences
SpacySentence(w) ==
    /\ pc[w] = "sentences"
    /\ idx[w] <= Len(units[w])
    /\ idx' = [idx EXCEPT ![w] = @ + 1]
    /\ results' = [results EXCEPT
                     ![Frame(w)] = spacy_step(nlp, @, units[w][idx[w]])]
    /\ UNCHANGED <<probe, window, SPACY_AVAILABLE, nlp, tables, pc, entry, text, units, ret, seen>>

\* after the loop: remove duplicates, return results
SpacyReturn(w) ==
    /\ pc[w] = "sentences"
    /\ idx[w] > Len(units[w])
    /\ pc' = [pc EXCEPT ![w] = "done"]
    /\ results' = [results EXCEPT ![Frame(w)] = Deduplicated(@)]
    /\ ret' = [ret EXCEPT ![w] = Deduplicated(results[Frame(w)])]
    /\ UNCHANGED <<probe, window, SPACY_AVAILABLE, nlp, tables, entry, text, units, idx, seen>>

\* analyze_with_patterns up to the loop: results, text.split('\n')
PatternsBegin(w) ==
    /\ pc[w] = "patterns"
    /\ results' = [results EXCEPT ![Frame(w)] = EmptyResults]
    /\ units' = [units EXCEPT ![w] = Split(text[w], "\n")]
    /\ idx' = [idx EXCEPT ![w] = 1]
    /\ pc' = [pc EXCEPT ![w] = "lines"]
    /\ UNCHANGED <<probe, window, SPACY_AVAILABLE, nlp, tables, entry, text, ret, seen>>

\* a variant of the iteration that consumes the question table as it goes
PatternsLineConsuming(w) ==
    /\ pc[w] = "lines"
    /\ idx[w] <= Len(units[w])
    /\ results' = [results EXCEPT
                     ![Frame(w)] = patterns_step(tables, @, units[w][idx[w]])]
    /\ idx' = [idx EXCEPT ![w] = @ + 1]
    /\ tables' = [tables EXCEPT !.question_patterns = IF @ = <<>> THEN @ ELSE Tail(@)]
    /\ UNCHANGED <<probe, window, SPACY_AVAILABLE, nlp, pc, entry, text, units, ret, seen>>

\* one iteration of the loop over the lines
PatternsLine(w) ==
    /\ pc[w] = "lines"
    /\ idx[w] <= Len(units[w])
    /\ idx' = [idx EXCEPT ![w] = @ + 1]
    /\ results' = [results EXCEPT
                     ![Frame(w)] = patterns_step(tables, @, units[w][idx[w]])]
    /\ UNCHANGED <<probe, window, SPACY_AVAILABLE, nlp, tables, pc, entry, text, units, ret, seen>>

\* after the loop: return results
PatternsReturn(w) ==
    /\ pc[w] = "lines"
    /\ idx[w] > Len(units[w])
    /\ pc' = [pc EXCEPT ![w] = "done"]
    /\ ret' = [ret EXCEPT ![w] = results[Frame(w)]]
    /\ UNCHANGED <<probe, window, SPACY_AVAILABLE, nlp, tables, entry, text, units, idx, results, seen>>

\* the caller has taken the returned value; the call's frame and locals are gone
Finish(w) ==
    /\ pc[w] = "done"
    /\ pc' = [pc EXCEPT ![w] = "idle"]
    /\ entry' = [entry EXCEPT ![w] = None]
    /\ text' = [text EXCEPT ![w] = <<>>]
    /\ units' = [units EXCEPT ![w] = <<>>]
    /\ idx' = [idx EXCEPT ![w] = 0]
    /\ results' = [results EXCEPT ![Frame(w)] = EmptyResults]
    /\ ret' = [ret EXCEPT ![w] = NotReturned]
    /\ UNCHANGED <<probe, window, SPACY_AVAILABLE, nlp, tables, seen>>

\* the caller keeps the value a call returned (results = analyzer.analyze_...(text))
Keep(w) ==
    /\ pc[w] = "done"
    /\ seen = {}
    /\ seen' = {[entry |-> entry[w], text |-> text[w], ret |-> ret[w]]}
    /\ UNCHANGED <<probe, window, SPACY_AVAILABLE, nlp, tables, pc, entry, text, units, idx, results, ret>>

\* self._is_question(sentence, sentence_doc)
TestQuestion ==
    /\ verdict["_is_question"] = None
    /\ verdict' = [verdict EXCEPT !["_is_question"] = call_is_question(unit.sentence, unit.doc)]
    /\ UNCHANGED <<unit, window, SPACY_AVAILABLE, nlp, tables, pc, entry, text, units, idx,
                   results, ret, seen>>

\* self._is_decision(sentence, sentence_doc)
TestDecision ==
    /\ verdict["_is_decision"] = None
    /\ verdict' = [verdict EXCEPT !["_is_decision"] = call_is_decision(unit.sentence, unit.doc)]
    /\ UNCHANGED <<unit, window, SPACY_AVAILABLE, nlp, tables, pc, entry, text, units, idx,
                   results, ret, seen>>

\* self._is_action(sentence, sentence_doc)
TestAction ==
    /\ verdict["_is_action"] = None
    /\ verdict' = [verdict EXCEPT !["_is_action"] = call_is_action(unit.sentence, unit.doc)]
    /\ UNCHANGED <<unit, window, SPACY_AVAILABLE, nlp, tables, pc, entry, text, units, idx,
                   results, ret, seen>>

\* self._check_patterns(line, patterns), for one of the three tables
TestPatterns ==
    /\ verdict["_check_patterns"] = None
    /\ \E key \in DOMAIN tables :
           verdict' = [verdict EXCEPT
                         !["_check_patterns"] = call_check_patterns(unit.sentence, tables[key])]
    /\ UNCHANGED <<unit, window, SPACY_AVAILABLE, nlp, tables, pc, entry, text, units, idx,
                   results, ret, seen>>

\* the user types, pastes or loads notes into the text box
UserTypes ==
    /\ \E txt \in Notes : app' = [app EXCEPT !.text_input = txt]
    /\ UNCHANGED <<probe, pending, cleared, SPACY_AVAILABLE, nlp, tables, pc, entry, text,
                   units, idx, results, ret, seen>>

\* analyze_notes(), whose thread is w: the warning on blank notes; else the status,
\* root.update(), and the start of the thread, which calls analyze_with_spacy(text)
AnalyzeNotes(w) ==
    LET txt == Strip(app.text_input \o <<"\n">>)
    IN  /\ pc[w] = "idle"
        /\ cleared' = FALSE
        /\ IF txt = <<>>
           THEN /\ app' = [app EXCEPT !.messagebox =
                              <<[kind |-> "showwarning", title |-> "Warning",
                                 message |-> <<"Please enter some meeting notes first.">>]>>]
                /\ UNCHANGED <<pending, pc, entry, text, ret>>
           ELSE /\ app' = RunAll(pending, [app EXCEPT !.status_var = Analyzing])
                /\ pending' = <<>>
                /\ pc' = [pc EXCEPT ![w] = "spacy"]
                /\ entry' = [entry EXCEPT ![w] = "spacy"]
                /\ text' = [text EXCEPT ![w] = txt]
                /\ ret' = [ret EXCEPT ![w] = NotReturned]
        /\ UNCHANGED <<probe, SPACY_AVAILABLE, nlp, tables, units, idx, results, seen>>

\* nlp(text) raises in thread w
EngineRaises(w) ==
    /\ pc[w] = "spacy"
    /\ SPACY_AVAILABLE
    /\ pc' = [pc EXCEPT ![w] = "raised"]
    /\ UNCHANGED <<probe, window, SPACY_AVAILABLE, nlp, tables, entry, text, units, idx,
                   results, ret, seen>>

\* analyze_thread: self.root.after(0, lambda: self.finish_analysis(results)); the
\* thread ends
ThreadSchedulesFinish(w) ==
    /\ pc[w] = "done"
    /\ pending' = Append(pending, FinishCallback(w, ret[w]))
    /\ pc' = [pc EXCEPT ![w] = "idle"]
    /\ entry' = [entry EXCEPT ![w] = None]
    /\ text' = [text EXCEPT ![w] = <<>>]
    /\ units' = [units EXCEPT ![w] = <<>>]
    /\ idx' = [idx EXCEPT ![w] = 0]
    /\ results' = [results EXCEPT ![Frame(w)] = EmptyResults]
    /\ ret' = [ret EXCEPT ![w] = NotReturned]
    /\ UNCHANGED <<probe, app, cleared, SPACY_AVAILABLE, nlp, tables, seen>>

\* analyze_thread, except Exception as e:
\* self.root.after(0, lambda: self.analysis_error(str(e)))
ThreadSchedulesError(w) ==
    /\ pc[w] = "raised"
    /\ pending' = Append(pending, ErrorCallback(w, EngineError))
    /\ pc' = [pc EXCEPT ![w] = "except"]
    /\ UNCHANGED <<probe, app, cleared, SPACY_AVAILABLE, nlp, tables, entry, text, units, idx,
                   results, ret, seen>>

\* analyze_thread leaves the except block, which unbinds e, and the thread ends
ThreadLeavesExcept(w) ==
    /\ pc[w] = "except"
    /\ pending' = [i \in 1..Len(pending) |->
                     IF pending[i].fn = "analysis_error" /\ pending[i].by = w
                     THEN [pending[i] EXCEPT !.e = Unbound]
                     ELSE pending[i]]
    /\ pc' = [pc EXCEPT ![w] = "idle"]
    /\ entry' = [entry EXCEPT ![w] = None]
    /\ text' = [text EXCEPT ![w] = <<>>]
    /\ UNCHANGED <<probe, app, cleared, SPACY_AVAILABLE, nlp, tables, units, idx, results,
                   ret, seen>>

\* the loop of the window runs the callback that is due first
RunCallback ==
    /\ pending # <<>>
    /\ app' = Run(Head(pending), app)
    /\ pending' = Tail(pending)
    /\ UNCHANGED <<probe, cleared, SPACY_AVAILABLE, nlp, tables, pc, entry, text, units, idx,
                   results, ret, seen>>

\* the user clicks Clear All
ClearAll ==
    /\ app' = clear_all(app)
    /\ cleared' = TRUE
    /\ UNCHANGED <<probe, pending, SPACY_AVAILABLE, nlp, tables, pc, entry, text, units, idx,
                   results, ret, seen>>

Steps(w) ==
    \/ SpacyBegin(w)
    \/ SpacySentence(w)
    \/ SpacyReturn(w)
    \/ PatternsBegin(w)
    \/ PatternsLine(w)
    \/ PatternsReturn(w)
    \/ Finish(w)

\* one caller, one call at a time
Next ==
    \/ CallSpacy("w1", Texts)
    \/ CallPatterns("w1", Texts)
    \/ Steps("w1")

Spec == Init /\ [][Next]_vars

\* one caller that keeps an earlier result and calls again
NextAgain ==
    \/ CallSpacy("w1", ShortTexts)
    \/ CallPatterns("w1", ShortTexts)
    \/ Steps("w1")
    \/ Keep("w1")

SpecAgain == Init /\ [][NextAgain]_vars

\* two worker threads of the application (analyze_notes.analyze_thread), interleaved
NextThreads ==
    \E w \in Workers :
        \/ CallSpacy(w, ShortTexts)
        \/ Steps(w)

SpecThreads == Init /\ [][NextThreads]_vars

\* what a thread of the window does by itself: the engine's steps, then the callback
Thread(w) ==
    \/ SpacyBegin(w)
    \/ SpacySentence(w)
    \/ SpacyReturn(w)
    \/ PatternsBegin(w)
    \/ PatternsLine(w)
    \/ PatternsReturn(w)
    \/ ThreadSchedulesFinish(w)
    \/ ThreadSchedulesError(w)
    \/ ThreadLeavesExcept(w)

\* the window: the user, the loop of the window, and the thread analyze_notes starts;
\* the user waits for the thread to end before the next Analyze click
NextApp ==
    \/ UserTypes
    \/ ClearAll
    \/ RunCallback
    \/ AnalyzeNotes("w1")
    \/ EngineRaises("w1")
    \/ Thread("w1")

\* what every step of a thread and every run of a callback changes
progress == <<pc, idx, pending>>

\* a started thread keeps running, and the loop of the window runs what is due
SpecApp ==
    /\ Init
    /\ [][NextApp]_vars
    /\ WF_progress(Thread("w1"))
    /\ WF_progress(RunCallback)

\* the category tests called on a unit, in any order
InitTests ==
    /\ SPACY_AVAILABLE = TRUE
    /\ nlp \in Taggers
    /\ tables = NewAnalyzer
    /\ pc = [w \in Workers |-> "idle"]
    /\ entry = [w \in Workers |-> None]
    /\ text = [w \in Workers |-> <<>>]
    /\ units = [w \in Workers |-> <<>>]
    /\ idx = [w \in Workers |-> 0]
    /\ results = [w \in Workers |-> EmptyResults]
    /\ ret = [w \in Workers |-> NotReturned]
    /\ seen = {}
    /\ unit \in TestUnits(nlp)
    /\ verdict = NoVerdict
    /\ app = NewApp
    /\ pending = <<>>
    /\ cleared = FALSE

NextTests ==
    \/ TestQuestion
    \/ TestDecision
    \/ TestAction
    \/ TestPatterns

SpecTests == InitTests /\ [][NextTests]_vars

(***************************************************************************)
(* The two methods as functions of their argument                          *)
(***************************************************************************)
RECURSIVE PatternsFold(_, _, _, _)
PatternsFold(tbl, res, lines, n) ==
    IF n > Len(lines) THEN res
    ELSE PatternsFold(tbl, patterns_step(tbl, res, lines[n]), lines, n + 1)

\* analyze_with_patterns(s)
analyze_with_patterns(tbl, s) == PatternsFold(tbl, EmptyResults, Split(s, "\n"), 1)

RECURSIVE SpacyFold(_, _, _, _)
SpacyFold(model, res, sentences, n) ==
    IF n > Len(sentences) THEN res
    ELSE SpacyFold(model, spacy_step(model, res, sentences[n]), sentences, n + 1)

\* analyze_with_spacy(s)
analyze_with_spacy(available, model, tbl, s) ==
    IF ~available THEN analyze_with_patterns(tbl, s)
    ELSE Deduplicated(SpacyFold(model, EmptyResults, Sentences(s), 1))

(***************************************************************************)
(* Vocabulary of the properties                                            *)
(***************************************************************************)
Done(w) == pc[w] = "done"

\* the call of w runs the annotation-based strategy
Annotated(w) == entry[w] = "spacy" /\ SPACY_AVAILABLE

\* the units of a text under the pattern-matching strategy
LineUnits(s) ==
    LET lines == Split(s, "\n")
    IN  SelectSeq([i \in 1..Len(lines) |-> Strip(lines[i])], LAMBDA u : u # <<>>)

\* the units the call of w classifies
InputUnits(w) == IF Annotated(w) THEN Sentences(text[w]) ELSE LineUnits(text[w])

NoRepeats(seq) == \A i, j \in 1..Len(seq) : seq[i] = seq[j] => i = j

FirstIndex(seq, x) == CHOOSE i \in 1..Len(seq) : seq[i] = x /\ \A j \in 1..(i - 1) : seq[j] # x

\* seq lists units in the order of their first occurrences in us
FirstOccurrenceOrder(seq, us) ==
    /\ \A i \in 1..Len(seq) : In(seq[i], us)
    /\ \A i, j \in 1..Len(seq) : i < j => FirstIndex(us, seq[i]) < FirstIndex(us, seq[j])

\* the outcomes of the three tests the strategy of w's call applies to unit u
TestsOf(w, u) ==
    IF Annotated(w)
    THEN LET doc == Doc(nlp, u)
         IN  [q |-> is_question(u, doc), d |-> is_decision(u, doc), a |-> is_action(u, doc)]
    ELSE [q |-> check_patterns(u, tables.question_patterns),
          d |-> check_patterns(u, tables.decision_patterns),
          a |-> check_patterns(u, tables.action_patterns)]

OnlyIn(u, key, res) == \A k \in Keys : In(u, res[k]) <=> k = key

(***************************************************************************)
(* Properties                                                              *)
(***************************************************************************)
\* C1: a call of the pattern-matching strategy returns three sequences in which no
\* string is repeated.
PatternsNoRepeats ==
    \A w \in Workers :
        Done(w) /\ ~Annotated(w) => \A k \in Keys : NoRepeats(ret[w][k])

\* C2: in every returned result, a unit that passes the question test and also the
\* decision or the action test is in questions only, and a unit that fails the
\* question test and passes both the decision and the action test is in decisions
\* only, under either strategy.
PriorityOrder ==
    \A w \in Workers :
        Done(w) =>
            LET us == InputUnits(w)
            IN  \A i \in 1..Len(us) :
                    LET t == TestsOf(w, us[i])
                    IN  /\ t.q /\ (t.d \/ t.a) => OnlyIn(us[i], "questions", ret[w])
                        /\ ~t.q /\ t.d /\ t.a => OnlyIn(us[i], "decisions", ret[w])

PriorityOrderWitness ==
    \E w \in Workers :
        /\ Done(w)
        /\ Annotated(w)
        /\ ret[w].questions # <<>>
        /\ ret[w].decisions # <<>>
        /\ LET us == InputUnits(w)
           IN  \E i, j \in 1..Len(us) :
                   LET ti == TestsOf(w, us[i])
                       tj == TestsOf(w, us[j])
                   IN  ti.q /\ ti.d /\ ti.a /\ ~tj.q /\ tj.d /\ tj.a

\* C3: the three sequences of every returned result are pairwise disjoint.
MutuallyExclusive ==
    \A w \in Workers :
        Done(w) =>
            \A k1, k2 \in Keys :
                k1 # k2 => Range(ret[w][k1]) \cap Range(ret[w][k2]) = {}

MutuallyExclusiveWitness ==
    \E w \in Workers :
        /\ Done(w)
        /\ ~Annotated(w)
        /\ Len(ret[w].questions) = 2
        /\ ret[w].questions[1] = ret[w].questions[2]
        /\ ret[w].decisions # <<>>
        /\ LET tq == TestsOf(w, ret[w].questions[1])
               td == TestsOf(w, ret[w].decisions[1])
           IN  tq.q /\ tq.a /\ td.d /\ td.a

\* C4: a call of the annotation-based strategy returns three sequences without
\* repeated strings, each listing its sentences in the order of their first
\* occurrences in the input.
SpacyDeduplicated ==
    \A w \in Workers :
        Done(w) /\ Annotated(w) =>
            LET us == InputUnits(w)
            IN  \A k \in Keys : NoRepeats(ret[w][k]) /\ FirstOccurrenceOrder(ret[w][k], us)

SpacyDeduplicatedWitness ==
    \E w \in Workers :
        /\ Done(w)
        /\ Annotated(w)
        /\ LET us == InputUnits(w)
           IN  /\ Len(us) = 3
               /\ us[1] = us[3]
               /\ us[1] # us[2]
               /\ ret[w].actions = <<us[1], us[2]>>

\* C5: under either strategy, if a stands before another string b in a returned
\* sequence then the first unit with text a comes before the first unit with text b
\* in the input.
OrderPreserved ==
    \A w \in Workers :
        Done(w) =>
            LET us == InputUnits(w)
            IN  \A k \in Keys :
                    \A i, j \in 1..Len(ret[w][k]) :
                        i < j /\ ret[w][k][i] # ret[w][k][j] =>
                            FirstIndex(us, ret[w][k][i]) < FirstIndex(us, ret[w][k][j])

\* C6: no call changes the pattern tables, the flag or the loaded model, and a call
\* returns what an earlier call of the same method on the same text returned.
SameAsEarlier ==
    \A w \in Workers :
        \A c \in seen :
            Done(w) /\ c.entry = entry[w] /\ c.text = text[w] => ret[w] = c.ret

Stateless ==
    /\ []SameAsEarlier
    /\ [][tables' = tables /\ nlp' = nlp /\ SPACY_AVAILABLE' = SPACY_AVAILABLE]_vars

StatelessWitness ==
    \E w \in Workers :
        \E c \in seen :
            /\ Done(w)
            /\ c.entry = entry[w]
            /\ c.text = text[w]
            /\ ret[w].actions # <<>>
            /\ ret[w].questions # <<>>

\* C7: under every interleaving of two calls, each call returns what it returns
\* when it runs alone on its text, and every string it returns is a unit of its
\* own text.
Alone(w) ==
    IF entry[w] = "spacy" THEN analyze_with_spacy(SPACY_AVAILABLE, nlp, tables, text[w])
    ELSE analyze_with_patterns(tables, text[w])

RunAlone ==
    \A w \in Workers :
        Done(w) =>
            /\ ret[w] = Alone(w)
            /\ \A k \in Keys : Range(ret[w][k]) \subseteq Range(InputUnits(w))

RunAloneWitness ==
    \E w, v \in Workers :
        /\ Done(w)
        /\ pc[v] \in {"sentences", "lines"}
        /\ idx[v] = 2
        /\ text[v] # text[w]
        /\ ret[w].actions # <<>>
        /\ results[v].questions # <<>>

\* C8: the capability flag keeps its startup value, and when the annotation engine
\* is not available a call of analyze_with_spacy raises nothing and returns what
\* analyze_with_patterns returns for the same text.
FallsBack ==
    \A w \in Workers :
        ~SPACY_AVAILABLE /\ entry[w] = "spacy" =>
            /\ pc[w] # "raised"
            /\ Done(w) => ret[w] = analyze_with_patterns(tables, text[w])

FlagFixed ==
    /\ []FallsBack
    /\ [][SPACY_AVAILABLE' = SPACY_AVAILABLE]_vars

FlagFixedWitness ==
    \E w \in Workers :
        /\ ~SPACY_AVAILABLE
        /\ entry[w] = "spacy"
        /\ Done(w)
        /\ Len(ret[w].actions) = 2

\* C9: on a text that is empty or only whitespace, a call under either strategy
\* raises nothing and returns three empty sequences.
Blank(s) == \A i \in 1..Len(s) : s[i] \in Whitespace

BlankGivesEmpty ==
    \A w \in Workers :
        entry[w] # None /\ Blank(text[w]) =>
            /\ pc[w] # "raised"
            /\ Done(w) => \A k \in Keys : Len(ret[w][k]) = 0

BlankGivesEmptyWitness ==
    \E w \in Workers :
        /\ Done(w)
        /\ Annotated(w)
        /\ Blank(text[w])
        /\ Len(text[w]) > 3
        /\ \E i \in 1..Len(text[w]) : text[w][i] = "\n"

\* C10: on each of the three scenario sentences, a call under either strategy
\* returns the sentence alone in decisions, in actions and in questions
\* respectively, and nothing else.
Expected(s) ==
    CASE s = <<"W","e"," ","d","e","c","i","d","e","d"," ","t","o"," ","s","h","i","p"," ","o","n"," ","F","r","i","d","a","y",".">>        -> [EmptyResults EXCEPT !.decisions = <<s>>]
      [] s = <<"J","o","h","n"," ","w","i","l","l"," ","s","e","n","d"," ","t","h","e"," ","r","e","p","o","r","t"," ","b","y"," ","M","o","n","d","a","y",".">> -> [EmptyResults EXCEPT !.actions = <<s>>]
      [] s = <<"W","h","a","t"," ","i","s"," ","t","h","e"," ","b","u","d","g","e","t"," ","f","o","r"," ","Q","3","?">>           -> [EmptyResults EXCEPT !.questions = <<s>>]

ScenariosAgree ==
    \A w \in Workers :
        Done(w) /\ text[w] \in Scenarios => ret[w] = Expected(text[w])

ScenariosAgreeWitness ==
    \E w \in Workers :
        /\ Done(w)
        /\ entry[w] = "patterns"
        /\ SPACY_AVAILABLE
        /\ text[w] = <<"J","o","h","n"," ","w","i","l","l"," ","s","e","n","d"," ","t","h","e"," ","r","e","p","o","r","t"," ","b","y"," ","M","o","n","d","a","y",".">>
        /\ ret[w].actions = <<text[w]>>

\* C11: every category test called on a unit returns True or False and never raises,
\* also when the unit's doc has no token or a single token.
TestsTotal ==
    \A t \in Tests : verdict[t] \in {None, "True", "False"}

\* all four tests have returned on a sentence that has characters and a doc without
\* tokens, and the sentence is none that returns before the doc is looked at
TestsTotalWitness ==
    /\ unit.sentence # <<>>
    /\ unit.doc = <<>>
    /\ \A t \in Tests : verdict[t] \in {"True", "False"}
    /\ verdict["_is_question"] = "False"
    /\ verdict["_is_action"] = "False"

\* line l without its leading and trailing whitespace
Trimmed(l) ==
    LET ink == {i \in 1..Len(l) : l[i] \notin Whitespace}
    IN  IF ink = {} THEN <<>>
        ELSE SubSeq(l, CHOOSE a \in ink : \A i \in ink : a <= i,
                       CHOOSE b \in ink : \A i \in ink : i <= b)

\* the trimmed lines that have characters, in the order of the lines
TrimmedLines(lines) ==
    SelectSeq([j \in 1..Len(lines) |-> Trimmed(lines[j])], LAMBDA u : u # <<>>)

\* the units of us that the pattern tables put in category key, in order
PutIn(tbl, us, key) ==
    SelectSeq(us, LAMBDA u :
        CASE key = "questions" -> check_patterns(u, tbl.question_patterns)
          [] key = "decisions" -> /\ ~check_patterns(u, tbl.question_patterns)
                                  /\ check_patterns(u, tbl.decision_patterns)
          [] key = "actions"   -> /\ ~check_patterns(u, tbl.question_patterns)
                                  /\ ~check_patterns(u, tbl.decision_patterns)
                                  /\ check_patterns(u, tbl.action_patterns))

\* C12: in fallback mode the units are the input's lines, split at line breaks, each
\* trimmed, the empty ones dropped, in input order: each returned sequence is the
\* units of its category in that order, and every returned string has characters,
\* no whitespace at either end, and is the trimmed text of a line of the input.
FallbackUnits ==
    \A w \in Workers :
        Done(w) /\ ~Annotated(w) =>
            LET lines == Split(text[w], "\n")
                us == TrimmedLines(lines)
            IN  /\ \A k \in Keys : ret[w][k] = PutIn(tables, us, k)
                /\ \A k \in Keys : \A i \in 1..Len(ret[w][k]) :
                       LET u == ret[w][k][i]
                       IN  /\ u # <<>>
                           /\ u[1] \notin Whitespace
                           /\ u[Len(u)] \notin Whitespace
                           /\ \E j \in 1..Len(lines) : u = Trimmed(lines[j])

\* a fallback call has returned on a text with a line that has whitespace at both
\* ends and a line of whitespace only, and returned the former trimmed
FallbackUnitsWitness ==
    \E w \in Workers :
        /\ Done(w)
        /\ ~Annotated(w)
        /\ LET lines == Split(text[w], "\n")
           IN  /\ \E j \in 1..Len(lines) : lines[j] = <<"\t","A","l"," ","w","i","l","l"," ","s","h","i","p","."," ">>
               /\ \E j \in 1..Len(lines) : lines[j] = <<" ","\t">>
        /\ ret[w].actions = <<<<"A","l"," ","w","i","l","l"," ","s","h","i","p",".">>>>

\* the three result panes are empty and no current_results is stored
NothingShown ==
    /\ app.action_text = <<>>
    /\ app.decision_text = <<>>
    /\ app.question_text = <<>>
    /\ app.current_results = {}

\* C13: after clear_all the three result panes are empty and no current_results is
\* stored, and this stays so until analyze_notes is invoked again, whatever a thread
\* started before clear_all and its pending callback do.
ClearedStaysCleared == cleared => NothingShown

\* C14: every analysis that analyze_notes starts eventually leaves the status
\* 'Analyzing meeting notes...', through finish_analysis or, when the engine raised,
\* through analysis_error.
AnalysisLeavesStatus ==
    (app.status_var = Analyzing) ~> (app.status_var # Analyzing)

=========================================================================
